---- MODULE Spec2Model ----
(***************************************************************************)
(* Model of the query engine of js/app.js: executeQuery, findOiers and     *)
(* buildWhereClauseAndValues, run against an in-memory store holding the   *)
(* OIer, Contest and Record tables.                                        *)
(***************************************************************************)
EXTENDS Integers, Sequences, FiniteSets, TLC

\* js/app.js:3
ENUMERATE_THRESHOLD == 20

\* ---- bounds of the model ----
\* number of rows of the OIer table
NumOiers == 21
\* longest config.records list drawn in Init
MaxRecords == 2

\* JS null in a numeric slot (every number of the model is >= 0)
NULL == -1

\* ---- shape of a QueryConfig ----
\* A bound pair property: given = FALSE when the property is undefined/null.
NoRange == [given |-> FALSE, lo |-> NULL, hi |-> NULL]
Range(lo, hi) == [given |-> TRUE, lo |-> lo, hi |-> hi]
\* A list property: given = FALSE when the property is undefined/null.
NoList == [given |-> FALSE, items |-> <<>>]
List(s) == [given |-> TRUE, items |-> s]

SeqToSet(s) == {s[k] : k \in DOMAIN s}

RECURSIVE SetToSeq(_)
\* Array.from(set): the members of a set of numbers as an array
SetToSeq(S) ==
    IF S = {} THEN <<>>
    ELSE LET m == CHOOSE x \in S : \A y \in S : x <= y
         IN <<m>> \o SetToSeq(S \ {m})

\* ---- the store: tables of the loaded database ----
Uids == 1..NumOiers
\* three groups of rows that share a profile: one row, two rows, the rest
GroupOf(u) == IF u = 1 THEN "a" ELSE IF u <= 3 THEN "b" ELSE "c"
Groups == {"a", "b", "c"}

\* Contest table: id -> row
Contest == [id \in {1, 2} |->
              IF id = 1 THEN [year |-> 2023, type |-> "NOI"]
                        ELSE [year |-> 2024, type |-> "CSP"]]

\* Record rows without their owner
RecordKinds ==
    { [contest_id |-> 1, score |-> 100, rank |-> 1, province |-> "A", level |-> "Au"],
      [contest_id |-> 2, score |-> 50,  rank |-> 9, province |-> "B", level |-> "Ag"],
      [contest_id |-> 1, score |-> 50,  rank |-> 3, province |-> "B", level |-> "Au"] }

\* what one group of OIers looks like: enrollment year and owned records
Profiles ==
    { [enroll |-> 2025, recs |-> {k \in RecordKinds : k.rank = 1}],
      [enroll |-> 2026, recs |-> {k \in RecordKinds : k.rank = 9}],
      [enroll |-> 2025, recs |-> {k \in RecordKinds : k.rank \in {1, 9}}],
      [enroll |-> 2026, recs |-> {}] }

\* the profiles the runs of the base filter draw from
BaseProfiles ==
    { [enroll |-> 2025, recs |-> {k \in RecordKinds : k.rank = 1}],
      [enroll |-> 2026, recs |-> {k \in RecordKinds : k.rank = 9}] }

\* the profiles the runs of the predicate compiler draw from
CompileProfiles ==
    { [enroll |-> 2025, recs |-> {k \in RecordKinds : k.rank \in {1, 9}}],
      [enroll |-> 2026, recs |-> {k \in RecordKinds : k.rank = 3}] }

\* oierdb_score of a row: several rows share a score
ScoreOf(u) == (u * 7) % 5

VARIABLES
    db,               \* "undefined" | "ready"            (js/app.js:17, 44)
    profile,          \* Groups -> Profiles: the content of the tables
    tieDesc,          \* how the store orders rows of equal oierdb_score
    currentYear,      \* new Date().getFullYear()
    config,           \* the QueryConfig handed to executeQuery
    pc,               \* position inside executeQuery/findOiers
    oierConditions,   \* findOiers: oierConditions
    oierValues,       \* findOiers: oierValues
    candidateUids,    \* findOiers: candidateUids
    enumerationMode,  \* findOiers: enumerationMode
    idx,              \* index of the next constraint of the for loop
    prepared,         \* statements prepared so far (db.prepare)
    freed,            \* statements released so far (stmt.free)
    lookups,          \* the store lookups issued so far, in order
    results,          \* what findOiers returned
    shown             \* what executeQuery displayed: "", "results", "error"

vars == <<db, profile, tieDesc, currentYear, config, pc, oierConditions,
          oierValues, candidateUids, enumerationMode, idx, prepared, freed,
          lookups, results, shown>>

\* the row of the OIer table whose uid is u
OIerRow(u) ==
    [uid |-> u, enroll_middle |-> profile[GroupOf(u)].enroll,
     oierdb_score |-> ScoreOf(u)]

\* OIer table
OIer == {OIerRow(u) : u \in Uids}

\* Record table
Record ==
    UNION { { [oier_uid |-> u, contest_id |-> k.contest_id, score |-> k.score,
               rank |-> k.rank, province |-> k.province, level |-> k.level] :
              k \in profile[GroupOf(u)].recs } : u \in Uids }

\* Record r JOIN Contest c ON r.contest_id = c.id
RecordJoinContest ==
    { [oier_uid |-> r.oier_uid, score |-> r.score, rank |-> r.rank,
       province |-> r.province, level |-> r.level,
       year |-> Contest[r.contest_id].year, type |-> Contest[r.contest_id].type] :
      r \in Record }

\* ---- SQL text: a WHERE clause is a list of conditions joined by AND; each
\* condition names a column, an operator and how many '?' it holds ----
Cond(col, op, n) == [col |-> col, op |-> op, n |-> n]
\* the text "1=1"
Tautology == Cond("1", "=1", 0)

ColumnValue(row, col) ==
    CASE col = "c.year" -> row.year
      [] col = "c.type" -> row.type
      [] col = "r.score" -> row.score
      [] col = "r.rank" -> row.rank
      [] col = "r.province" -> row.province
      [] col = "r.level" -> row.level
      [] col = "r.oier_uid" -> row.oier_uid
      [] col = "enroll_middle" -> row.enroll_middle
      [] col = "uid" -> row.uid

CondHolds(c, bound, row) ==
    CASE c.op = ">=" -> ColumnValue(row, c.col) >= bound[1]
      [] c.op = "<=" -> ColumnValue(row, c.col) <= bound[1]
      [] c.op = "IN" -> ColumnValue(row, c.col) \in SeqToSet(bound)
      [] c.op = "=1" -> TRUE

RECURSIVE WhereHolds(_, _, _)
\* the store evaluating a WHERE clause on a row, each condition consuming its
\* own '?' values from the bound list, left to right
WhereHolds(conds, values, row) ==
    IF conds = <<>> THEN TRUE
    ELSE LET c == Head(conds)
         IN /\ CondHolds(c, SubSeq(values, 1, c.n), row)
            /\ WhereHolds(Tail(conds), SubSeq(values, c.n + 1, Len(values)), row)

\* SELECT uid FROM OIer WHERE ...
SelectOierUids(conds, values) ==
    {row.uid : row \in {x \in OIer : WhereHolds(conds, values, x)}}

\* SELECT DISTINCT r.oier_uid FROM Record r JOIN Contest c ... WHERE ...
SelectRecordUids(conds, values) ==
    {row.oier_uid : row \in {x \in RecordJoinContest : WhereHolds(conds, values, x)}}

\* the store's choice between two rows of equal oierdb_score
TieFirst(u, v) == IF tieDesc THEN u > v ELSE u < v

\* row u comes before row v under ORDER BY oierdb_score DESC
ScoreBefore(u, v) ==
    \/ OIerRow(u).oierdb_score > OIerRow(v).oierdb_score
    \/ OIerRow(u).oierdb_score = OIerRow(v).oierdb_score /\ TieFirst(u, v)

RECURSIVE OrderByScoreDesc(_)
\* the uids of S in the order ORDER BY oierdb_score DESC returns their rows
OrderByScoreDesc(S) ==
    IF S = {} THEN <<>>
    ELSE LET top == CHOOSE u \in S : \A v \in S \ {u} : ScoreBefore(u, v)
         IN <<top>> \o OrderByScoreDesc(S \ {top})

\* ---- buildWhereClauseAndValues ----
\* params[field] && params[field].some(v => v !== null)
RangePresent(f) == f.given /\ (f.lo # NULL \/ f.hi # NULL)

\* the conditions and values one range field contributes
RangeConditions(f, column) ==
    IF RangePresent(f)
    THEN [conds  |-> (IF f.lo # NULL THEN <<Cond(column, ">=", 1)>> ELSE <<>>) \o
                     (IF f.hi # NULL THEN <<Cond(column, "<=", 1)>> ELSE <<>>),
          values |-> (IF f.lo # NULL THEN <<f.lo>> ELSE <<>>) \o
                     (IF f.hi # NULL THEN <<f.hi>> ELSE <<>>)]
    ELSE [conds |-> <<>>, values |-> <<>>]

\* the test of line 254 without its length check
ListPresentTruthy(f) == f.given

\* params[field] && params[field].length > 0
ListPresent(f) == f.given /\ Len(f.items) > 0

\* the condition and values one list field contributes
ListConditions(f, column) ==
    IF ListPresent(f)
    THEN [conds |-> <<Cond(column, "IN", Len(f.items))>>, values |-> f.items]
    ELSE [conds |-> <<>>, values |-> <<>>]

buildWhereClauseAndValues(params) ==
    LET parts == << RangeConditions(params.year_range, "c.year"),
                    RangeConditions(params.score_range, "r.score"),
                    RangeConditions(params.rank_range, "r.rank"),
                    ListConditions(params.province, "r.province"),
                    ListConditions(params.level_range, "r.level"),
                    ListConditions(params.contest_type, "c.type") >>
        conditions == parts[1].conds \o parts[2].conds \o parts[3].conds \o
                      parts[4].conds \o parts[5].conds \o parts[6].conds
        values == parts[1].values \o parts[2].values \o parts[3].values \o
                  parts[4].values \o parts[5].values \o parts[6].values
    IN [where  |-> IF Len(conditions) > 0 THEN conditions ELSE <<Tautology>>,
        values |-> values]

\* ---- findOiers, 1. OIer level filtering ----
\* the translation with the grade-7 offset one year short
GradeToMinEnrollOffByOne(year, maxGrade) == year - maxGrade + 6
\* currentYear - maxGrade + 7
GradeToMinEnroll(year, maxGrade) == year - maxGrade + 7
\* currentYear - minGrade + 7
GradeToMaxEnroll(year, minGrade) == year - minGrade + 7

\* oierConditions and oierValues as lines 173-184 build them
BaseConditions(cfg, year) ==
    LET e == cfg.enroll_year_range
        g == cfg.grade_range
        eOn == RangePresent(e)
        gOn == RangePresent(g)
    IN [conds |->
          (IF eOn /\ e.lo # NULL THEN <<Cond("enroll_middle", ">=", 1)>> ELSE <<>>) \o
          (IF eOn /\ e.hi # NULL THEN <<Cond("enroll_middle", "<=", 1)>> ELSE <<>>) \o
          (IF gOn /\ g.hi # NULL THEN <<Cond("enroll_middle", ">=", 1)>> ELSE <<>>) \o
          (IF gOn /\ g.lo # NULL THEN <<Cond("enroll_middle", "<=", 1)>> ELSE <<>>),
        values |->
          (IF eOn /\ e.lo # NULL THEN <<e.lo>> ELSE <<>>) \o
          (IF eOn /\ e.hi # NULL THEN <<e.hi>> ELSE <<>>) \o
          (IF gOn /\ g.hi # NULL THEN <<GradeToMinEnroll(year, g.hi)>> ELSE <<>>) \o
          (IF gOn /\ g.lo # NULL THEN <<GradeToMaxEnroll(year, g.lo)>> ELSE <<>>)]

\* candidateUids: null, or a Set of uids
NullCandidates == [isNull |-> TRUE, uids |-> {}]
Candidates(S) == [isNull |-> FALSE, uids |-> S]

\* config.records || []
RecordConstraints(cfg) == IF cfg.records.given THEN cfg.records.items ELSE <<>>

\* ---- findOiers, 2. Record level filtering ----
\* line 196: candidateUids && candidateUids.size < ENUMERATE_THRESHOLD
InitialEnumerationMode(cand) ==
    ~cand.isNull /\ Cardinality(cand.uids) < ENUMERATE_THRESHOLD

\* line 203: enumerationMode && candidateUids.size > 0
ScopeLookup(em, cand) == em /\ Cardinality(cand.uids) > 0

\* lines 199-207: finalWhere and finalValues of one constraint
FinalQuery(constraint, em, cand) ==
    LET built == buildWhereClauseAndValues(constraint)
    IN IF ScopeLookup(em, cand)
       THEN [where  |-> built.where \o
                        <<Cond("r.oier_uid", "IN", Cardinality(cand.uids))>>,
             values |-> built.values \o SetToSeq(cand.uids)]
       ELSE built

\* the intersection without the branch for a null candidateUids
IntersectNoNullCase(cand, uidsForThisConstraint) ==
    Candidates({uid \in cand.uids : uid \in uidsForThisConstraint})

\* the matched set overwriting candidateUids instead of narrowing it
IntersectOverwrite(cand, uidsForThisConstraint) ==
    Candidates(uidsForThisConstraint)

\* lines 215-219
Intersect(cand, uidsForThisConstraint) ==
    IF cand.isNull THEN Candidates(uidsForThisConstraint)
    ELSE Candidates({uid \in cand.uids : uid \in uidsForThisConstraint})

\* lines 220-222
SwitchEnumerationMode(em, cand) ==
    IF ~em /\ ~cand.isNull /\ Cardinality(cand.uids) < ENUMERATE_THRESHOLD
    THEN TRUE ELSE em

\* line 223
LoopBreaks(cand) == Cardinality(cand.uids) = 0

\* one iteration of the for loop whose lookup succeeds
LoopIteration(constraint, em, cand) ==
    LET q == FinalQuery(constraint, em, cand)
        uidsForThisConstraint == SelectRecordUids(q.where, q.values)
        next == Intersect(cand, uidsForThisConstraint)
    IN [cand |-> next, em |-> SwitchEnumerationMode(em, next),
        stop |-> LoopBreaks(next), scoped |-> ScopeLookup(em, cand)]

\* ---- findOiers, 3. Fetch final results ----
\* the endings with the null-or-empty test of line 230 made first
FetchKindEmptyFirst(cand, nConditions, nConstraints) ==
    IF cand.isNull \/ Cardinality(cand.uids) = 0 THEN "none"
    ELSE IF cand.isNull /\ nConditions = 0 /\ nConstraints = 0 THEN "all"
    ELSE "in"

\* the endings with line 230 testing for null only
FetchKindNoEmptyCheck(cand, nConditions, nConstraints) ==
    IF cand.isNull /\ nConditions = 0 /\ nConstraints = 0 THEN "all"
    ELSE IF cand.isNull THEN "none"
    ELSE "in"

\* lines 227-232: which of the three endings is taken
FetchKind(cand, nConditions, nConstraints) ==
    IF cand.isNull /\ nConditions = 0 /\ nConstraints = 0 THEN "all"
    ELSE IF cand.isNull \/ Cardinality(cand.uids) = 0 THEN "none"
    ELSE "in"

\* SELECT * FROM OIer, the ORDER BY left out
SelectAllOiersUnordered == SetToSeq(Uids)

\* SELECT * FROM OIer ORDER BY oierdb_score DESC
SelectAllOiers == OrderByScoreDesc(Uids)
\* SELECT * FROM OIer WHERE uid IN (...) ORDER BY oierdb_score DESC
SelectOiersIn(values) ==
    OrderByScoreDesc(SelectOierUids(<<Cond("uid", "IN", Len(values))>>, values))

RECURSIVE RunLoop(_, _, _, _, _)
\* the for loop of lines 198-224 from constraint k on, every lookup succeeding
RunLoop(recs, k, em, cand, log) ==
    IF k > Len(recs) THEN [cand |-> cand, log |-> log]
    ELSE LET it == LoopIteration(recs[k], em, cand)
             logged == Append(log, [scoped |-> it.scoped,
                                    size |-> IF cand.isNull THEN NULL
                                             ELSE Cardinality(cand.uids)])
         IN IF it.stop THEN [cand |-> it.cand, log |-> logged]
            ELSE RunLoop(recs, k + 1, it.em, it.cand, logged)

\* findOiers(cfg) when no store call throws: the final candidateUids, the
\* record lookups issued and the returned rows
findOiers(cfg) ==
    LET base == BaseConditions(cfg, currentYear)
        first == IF Len(base.conds) > 0
                 THEN Candidates(SelectOierUids(base.conds, base.values))
                 ELSE NullCandidates
        loop == RunLoop(RecordConstraints(cfg), 1, InitialEnumerationMode(first),
                        first, <<>>)
        kind == FetchKind(loop.cand, Len(base.conds), Len(RecordConstraints(cfg)))
    IN [cand |-> loop.cand, log |-> loop.log,
        results |-> CASE kind = "all" -> SelectAllOiers
                      [] kind = "none" -> <<>>
                      [] kind = "in" -> SelectOiersIn(SetToSeq(loop.cand.uids))]

\* ---- the inputs drawn in Init ----
NoConstraint ==
    [year_range |-> NoRange, score_range |-> NoRange, rank_range |-> NoRange,
     province |-> NoList, level_range |-> NoList, contest_type |-> NoList]

\* the record constraints the engine runs are drawn from
ConstraintChoices ==
    { [NoConstraint EXCEPT !.year_range = Range(2023, 2023)],
      [NoConstraint EXCEPT !.contest_type = List(<<"CSP">>)],
      [NoConstraint EXCEPT !.province = List(<<>>),
                           !.rank_range = Range(NULL, NULL)] }

\* every combination of the fields of one record constraint
AllConstraints ==
    [year_range : {NoRange, Range(NULL, NULL), Range(2024, NULL), Range(NULL, 2023)},
     score_range : {NoRange, Range(60, NULL)},
     rank_range : {NoRange, Range(NULL, 5)},
     province : {NoList, List(<<>>), List(<<"A">>)},
     level_range : {NoList, List(<<>>), List(<<"Ag", "Au">>)},
     contest_type : {NoList, List(<<>>), List(<<"NOI">>)}]

RECURSIVE SeqsUpTo(_, _)
\* the sequences over S of length at most n
SeqsUpTo(S, n) ==
    IF n = 0 THEN {<<>>}
    ELSE LET shorter == SeqsUpTo(S, n - 1)
         IN shorter \cup {Append(q, x) : q \in shorter, x \in S}

\* the (enroll_year_range, grade_range) pairs the engine runs are drawn from
BaseChoices ==
    { <<NoRange, NoRange>>, <<Range(2026, NULL), NoRange>>, <<NoRange, Range(8, 8)>> }

\* every bound pair over the given values
AllRanges(S) == {NoRange} \cup {Range(lo, hi) : lo \in S \cup {NULL}, hi \in S \cup {NULL}}

Config(base, recs) ==
    [valid |-> TRUE, enroll_year_range |-> base[1], grade_range |-> base[2],
     records |-> recs]
\* a null or otherwise falsy config
NoConfig ==
    [valid |-> FALSE, enroll_year_range |-> NoRange, grade_range |-> NoRange,
     records |-> NoList]

EngineConfigs ==
    {NoConfig} \cup
    {Config(b, r) : b \in BaseChoices,
                    r \in {NoList} \cup {List(q) : q \in SeqsUpTo(ConstraintChoices, MaxRecords)}}

BaseConfigs ==
    {Config(<<e, g>>, r) :
        e \in AllRanges({2025, 2026}), g \in AllRanges({7, 8}),
        r \in {NoList} \cup {List(q) : q \in SeqsUpTo({[NoConstraint EXCEPT !.year_range = Range(2023, 2023)]},
                                        MaxRecords - 1)}}

CompileConfigs ==
    {Config(<<NoRange, NoRange>>, List(<<c>>)) : c \in AllConstraints}

InitWith(configs, years, profiles, ties) ==
    /\ db = "undefined"
    /\ profile \in [Groups -> profiles]
    /\ tieDesc \in ties
    /\ currentYear \in years
    /\ config \in configs
    /\ pc = "idle"
    /\ oierConditions = <<>>
    /\ oierValues = <<>>
    /\ candidateUids = NullCandidates
    /\ enumerationMode = FALSE
    /\ idx = 1
    /\ prepared = 0
    /\ freed = 0
    /\ lookups = <<>>
    /\ results = <<>>
    /\ shown = ""

Init == InitWith(EngineConfigs, {2026}, Profiles, {FALSE})
InitBase == InitWith(BaseConfigs, {2026, 2027}, BaseProfiles, BOOLEAN)
InitCompile == InitWith(CompileConfigs, {2026}, CompileProfiles, {FALSE})

\* ---- main(): the database is loaded and the handle set (line 44) ----
Main ==
    /\ pc = "idle"
    /\ db = "undefined"
    /\ db' = "ready"
    /\ UNCHANGED <<profile, tieDesc, currentYear, config, pc, oierConditions,
                   oierValues, candidateUids, enumerationMode, idx, prepared,
                   freed, lookups, results, shown>>

\* how a prepared statement's bind and step calls end
Outcomes == {"ok", "bind_error", "step_error"}

\* one lookup as the history of lookups records it: size is the number of
\* candidate uids when it was issued, NULL when candidateUids was null
Lookup(stage, scoped, cand) ==
    [stage |-> stage, scoped |-> scoped,
     size |-> IF cand.isNull THEN NULL ELSE Cardinality(cand.uids)]

\* an exception leaves findOiers and is caught by executeQuery (lines 165-168)
Throw ==
    /\ pc' = "failed"
    /\ shown' = "error"
    /\ UNCHANGED <<candidateUids, enumerationMode, idx, results>>

\* executeQuery up to the first store access (lines 157-184)
ExecuteQuery ==
    /\ pc = "idle"
    /\ IF ~config.valid
       THEN /\ pc' = "rejected"
            /\ shown' = "error"
            /\ UNCHANGED <<oierConditions, oierValues>>
       ELSE /\ pc' = "base"
            /\ oierConditions' = BaseConditions(config, currentYear).conds
            /\ oierValues' = BaseConditions(config, currentYear).values
            /\ UNCHANGED shown
    /\ UNCHANGED <<db, profile, tieDesc, currentYear, config, candidateUids,
                   enumerationMode, idx, prepared, freed, lookups, results>>

\* where findOiers goes once candidateUids is cand: into the loop, or past it
AfterLookup(cand, next) ==
    IF next > Len(RecordConstraints(config)) THEN "fetch" ELSE "loop"

\* findOiers lines 186-196: the OIer lookup and the first enumerationMode
BaseLookup ==
    /\ pc = "base"
    /\ IF Len(oierConditions) > 0
       THEN IF db = "undefined"
            THEN Throw /\ UNCHANGED <<prepared, freed, lookups>>
            ELSE \E outcome \in Outcomes :
                 /\ prepared' = prepared + 1
                 /\ lookups' = IF outcome = "bind_error" THEN lookups
                               ELSE Append(lookups, Lookup("base", FALSE, candidateUids))
                 /\ IF outcome = "ok"
                    THEN LET cand == Candidates(SelectOierUids(oierConditions, oierValues))
                         IN /\ freed' = freed + 1
                            /\ candidateUids' = cand
                            /\ enumerationMode' = InitialEnumerationMode(cand)
                            /\ pc' = AfterLookup(cand, 1)
                            /\ UNCHANGED <<idx, results, shown>>
                    ELSE Throw /\ UNCHANGED freed
       ELSE /\ enumerationMode' = InitialEnumerationMode(candidateUids)
            /\ pc' = AfterLookup(candidateUids, 1)
            /\ UNCHANGED <<candidateUids, idx, prepared, freed, lookups, results, shown>>
    /\ UNCHANGED <<db, profile, tieDesc, currentYear, config, oierConditions, oierValues>>

\* findOiers lines 198-224: one iteration of the loop over config.records
RecordLookup ==
    /\ pc = "loop"
    /\ IF db = "undefined"
       THEN Throw /\ UNCHANGED <<prepared, freed, lookups>>
       ELSE \E outcome \in Outcomes :
            LET it == LoopIteration(RecordConstraints(config)[idx],
                                    enumerationMode, candidateUids)
            IN /\ prepared' = prepared + 1
               /\ lookups' = IF outcome = "bind_error" THEN lookups
                             ELSE Append(lookups, Lookup("record", it.scoped, candidateUids))
               /\ IF outcome = "ok"
                  THEN /\ freed' = freed + 1
                       /\ candidateUids' = it.cand
                       /\ enumerationMode' = it.em
                       /\ idx' = idx + 1
                       /\ pc' = IF it.stop THEN "fetch" ELSE AfterLookup(it.cand, idx + 1)
                       /\ UNCHANGED <<results, shown>>
                  ELSE Throw /\ UNCHANGED freed
    /\ UNCHANGED <<db, profile, tieDesc, currentYear, config, oierConditions, oierValues>>

\* findOiers lines 226-238 and displayResults (line 164)
FetchResults ==
    /\ pc = "fetch"
    /\ LET kind == FetchKind(candidateUids, Len(oierConditions),
                             Len(RecordConstraints(config)))
       IN CASE kind = "all" ->
                 IF db = "undefined"
                 THEN Throw /\ UNCHANGED <<prepared, freed, lookups>>
                 ELSE \E outcome \in {"ok", "step_error"} :
                      /\ lookups' = Append(lookups, Lookup("all", FALSE, candidateUids))
                      /\ IF outcome = "ok"
                         THEN /\ results' = SelectAllOiers
                              /\ pc' = "done"
                              /\ shown' = "results"
                              /\ UNCHANGED <<candidateUids, enumerationMode, idx>>
                         ELSE Throw
                      /\ UNCHANGED <<prepared, freed>>
            [] kind = "none" ->
                 /\ results' = <<>>
                 /\ pc' = "done"
                 /\ shown' = "results"
                 /\ UNCHANGED <<candidateUids, enumerationMode, idx, prepared, freed, lookups>>
            [] kind = "in" ->
                 IF db = "undefined"
                 THEN Throw /\ UNCHANGED <<prepared, freed, lookups>>
                 ELSE \E outcome \in Outcomes :
                      /\ prepared' = prepared + 1
                      /\ lookups' = IF outcome = "bind_error" THEN lookups
                                    ELSE Append(lookups, Lookup("fetch", FALSE, candidateUids))
                      /\ IF outcome = "ok"
                         THEN /\ freed' = freed + 1
                              /\ results' = SelectOiersIn(SetToSeq(candidateUids.uids))
                              /\ pc' = "done"
                              /\ shown' = "results"
                              /\ UNCHANGED <<candidateUids, enumerationMode, idx>>
                         ELSE Throw /\ UNCHANGED freed
    /\ UNCHANGED <<db, profile, tieDesc, currentYear, config, oierConditions, oierValues>>

Next == Main \/ ExecuteQuery \/ BaseLookup \/ RecordLookup \/ FetchResults

Spec == Init /\ [][Next]_vars
SpecBase == InitBase /\ [][Next]_vars
SpecCompile == InitCompile /\ [][Next]_vars

\* ---- what the claims speak of ----
Recs == RecordConstraints(config)

\* a side of either base pair is present
HasBaseBound(cfg) ==
    \/ cfg.enroll_year_range.given /\ cfg.enroll_year_range.lo # NULL
    \/ cfg.enroll_year_range.given /\ cfg.enroll_year_range.hi # NULL
    \/ cfg.grade_range.given /\ cfg.grade_range.lo # NULL
    \/ cfg.grade_range.given /\ cfg.grade_range.hi # NULL

\* enrollment year e satisfies every present base bound of cfg in year y
EnrollOk(cfg, y, e) ==
    LET r == cfg.enroll_year_range
        g == cfg.grade_range
    IN /\ (r.given /\ r.lo # NULL) => r.lo <= e
       /\ (r.given /\ r.hi # NULL) => e <= r.hi
       /\ (g.given /\ g.hi # NULL) => y - g.hi + 7 <= e
       /\ (g.given /\ g.lo # NULL) => e <= y - g.lo + 7

InBounds(f, v) ==
    /\ (f.given /\ f.lo # NULL) => f.lo <= v
    /\ (f.given /\ f.hi # NULL) => v <= f.hi

InList(f, v) == (f.given /\ f.items # <<>>) => v \in SeqToSet(f.items)

\* a joined record row satisfies all the conditions of constraint c
RecordSatisfies(row, c) ==
    /\ InBounds(c.year_range, row.year)
    /\ InBounds(c.score_range, row.score)
    /\ InBounds(c.rank_range, row.rank)
    /\ InList(c.province, row.province)
    /\ InList(c.level_range, row.level)
    /\ InList(c.contest_type, row.type)

\* the owners of a record satisfying c, over the full record set
MatchedUnscoped(c) ==
    {row.oier_uid : row \in {x \in RecordJoinContest : RecordSatisfies(x, c)}}

\* the enrollees passing the base bounds and the first n record constraints
Qualified(n) ==
    LET base == {u \in Uids : EnrollOk(config, currentYear, OIerRow(u).enroll_middle)}
        matched == {MatchedUnscoped(Recs[k]) : k \in 1..n}
    IN {u \in base : \A M \in matched : u \in M}

NoDuplicates(q) == Cardinality(SeqToSet(q)) = Len(q)

Constrained == config.valid /\ (HasBaseBound(config) \/ Len(Recs) > 0)

\* C1: with a base bound or a record constraint, the candidate set after the
\* base filter and n constraints is the base set (the universe without a base
\* bound) intersected with the unscoped matched set of each of them, and the
\* rows returned are exactly the enrollees passing every constraint, each once.
C1_ExactFilter ==
    /\ (Constrained /\ pc \in {"loop", "fetch", "done"} /\ ~candidateUids.isNull)
          => /\ candidateUids.uids = Qualified(idx - 1)
             /\ (pc # "loop" => candidateUids.uids = Qualified(Len(Recs)))
    /\ (Constrained /\ pc = "done")
          => /\ ~candidateUids.isNull
             /\ SeqToSet(results) = Qualified(Len(Recs))
             /\ NoDuplicates(results)

\* a scoped lookup took part in a non-empty, proper answer
C1_Witness ==
    /\ pc = "done" /\ Len(Recs) = 2 /\ results # <<>>
    /\ Len(results) < NumOiers
    /\ \E k \in DOMAIN lookups : lookups[k].stage = "record" /\ lookups[k].scoped
    /\ MatchedUnscoped(Recs[2]) # SeqToSet(results)

\* the permutations of 1..n
Perms(n) == {f \in [1..n -> 1..n] : \A a, b \in 1..n : f[a] = f[b] => a = b}

Permuted(cfg, f) ==
    [cfg EXCEPT !.records = [given |-> cfg.records.given,
                             items |-> [k \in 1..Len(RecordConstraints(cfg)) |->
                                           RecordConstraints(cfg)[f[k]]]]]

\* the record lookups of the evaluation so far, as findOiers logs them
RecordLog ==
    LET at == {k \in DOMAIN lookups : lookups[k].stage = "record"}
    IN [k \in 1..Cardinality(at) |->
          LET l == lookups[CHOOSE j \in at : Cardinality({m \in at : m <= j}) = k]
          IN [scoped |-> l.scoped, size |-> l.size]]

\* C2: evaluating the config with its records in any other order ends with
\* the same candidate set and returns the same sequence of rows.
C2_OrderIndependent ==
    pc = "done" =>
        \A f \in Perms(Len(Recs)) :
            LET other == findOiers(Permuted(config, f))
            IN other.cand = candidateUids /\ other.results = results

\* another order issues other lookups (scoped elsewhere, or fewer) and yet
\* returns the same non-empty rows
C2_Witness ==
    /\ pc = "done" /\ Len(Recs) >= 2 /\ results # <<>>
    /\ \E f \in Perms(Len(Recs)) : findOiers(Permuted(config, f)).log # RecordLog

ScoreSorted(q) ==
    \A a, b \in DOMAIN q :
        a < b => OIerRow(q[a]).oierdb_score >= OIerRow(q[b]).oierdb_score

\* C3: with no present base bound and no record constraint, findOiers returns
\* every enrollee, by oierdb_score descending, after exactly one store lookup.
C3_NoConstraintAll ==
    (pc = "done" /\ ~HasBaseBound(config) /\ Len(Recs) = 0)
        => /\ SeqToSet(results) = Uids
           /\ NoDuplicates(results)
           /\ ScoreSorted(results)
           /\ Len(lookups) = 1

C3_Witness ==
    /\ pc = "done" /\ Len(Recs) = 0
    /\ config.enroll_year_range = Range(NULL, NULL)
    /\ config.grade_range = Range(NULL, NULL)
    /\ Len(results) = NumOiers

\* C4: when an evaluation has ended, on any exit path, every statement it
\* prepared has been released.
C4_HandlesReleased ==
    pc \in {"done", "failed", "rejected"} => prepared = freed

\* C5: after the base filter the candidate set is exactly the enrollees whose
\* enrollment year satisfies every present bound of both pairs; with no side
\* present it is null and no lookup was issued.
C5_BaseFilter ==
    (pc \in {"loop", "fetch"} /\ idx = 1)
        => IF HasBaseBound(config)
           THEN /\ ~candidateUids.isNull
                /\ candidateUids.uids =
                      {u \in Uids : EnrollOk(config, currentYear, OIerRow(u).enroll_middle)}
                /\ Len(lookups) = 1 /\ lookups[1].stage = "base"
           ELSE /\ candidateUids.isNull
                /\ lookups = <<>>

\* all four sides present, and the filter keeps some enrollees but not all
C5_Witness ==
    /\ pc \in {"loop", "fetch"} /\ idx = 1
    /\ config.enroll_year_range.given /\ config.grade_range.given
    /\ config.enroll_year_range.lo # NULL /\ config.enroll_year_range.hi # NULL
    /\ config.grade_range.lo # NULL /\ config.grade_range.hi # NULL
    /\ config.grade_range.lo # config.grade_range.hi
    /\ candidateUids.uids # {} /\ candidateUids.uids # Uids

ListFields == {"province", "contest_type", "level_range"}

\* an explicitly empty list where it was absent, absent where it was empty
Toggled(c, field) ==
    [c EXCEPT ![field] = IF c[field].given THEN NoList ELSE List(<<>>)]

Unconstraining(f) == ~f.given \/ f.items = <<>>

NoFieldPresent(c) ==
    /\ ~RangePresent(c.year_range) /\ ~RangePresent(c.score_range)
    /\ ~RangePresent(c.rank_range)
    /\ Unconstraining(c.province) /\ Unconstraining(c.level_range)
    /\ Unconstraining(c.contest_type)

\* C6: for each list field on its own, the constraint with the field empty
\* and the one with it absent compile to the same predicate, match the same
\* owners and give the same result; with no field present the predicate is
\* the tautology and matches every record.
C6_EmptyListIsAbsent ==
    (config.valid /\ Len(Recs) = 1 /\ pc \in {"fetch", "done"}) =>
        LET c == Recs[1]
            built == buildWhereClauseAndValues(c)
        IN /\ \A field \in ListFields :
                Unconstraining(c[field]) =>
                    LET other == Toggled(c, field)
                        built2 == buildWhereClauseAndValues(other)
                        cfg2 == [config EXCEPT !.records = List(<<other>>)]
                    IN /\ built2.where = built.where
                       /\ built2.values = built.values
                       /\ SelectRecordUids(built2.where, built2.values)
                             = SelectRecordUids(built.where, built.values)
                       /\ LET other2 == findOiers(cfg2)
                          IN /\ other2.cand = candidateUids
                             /\ pc = "done" => other2.results = results
           /\ NoFieldPresent(c) =>
                /\ built.where = <<Tautology>>
                /\ HasBaseBound(config) \/
                      candidateUids.uids = {r.oier_uid : r \in Record}

C6_Witness ==
    /\ pc = "done" /\ Len(Recs) = 1 /\ results # <<>> /\ Len(results) < NumOiers
    /\ Recs[1].province = List(<<>>)
    /\ Recs[1].level_range = NoList
    /\ Recs[1].contest_type = List(<<"NOI">>)

\* C7: while the store handle is not initialized no evaluation returns a
\* result sequence: nothing is looked up, and the evaluation is either still
\* on its way to its first store access or has failed.
C7_StoreUnavailable ==
    db = "undefined" =>
        /\ pc # "done"
        /\ shown # "results"
        /\ lookups = <<>>
        /\ pc = "loop" => Len(Recs) > 0
        /\ pc = "fetch" =>
              FetchKind(candidateUids, Len(oierConditions), Len(Recs)) = "all"

\* the config with nothing to filter failed on the store too
C7_Witness ==
    /\ db = "undefined" /\ pc = "failed" /\ shown = "error"
    /\ config.valid /\ ~HasBaseBound(config) /\ Len(Recs) = 0

\* C8: no store lookup of any kind is issued while the candidate set is
\* empty, and an evaluation that ends with it empty returns no row.
C8_ShortCircuit ==
    /\ \A k \in DOMAIN lookups : lookups[k].size # 0
    /\ (pc = "done" /\ ~candidateUids.isNull /\ candidateUids.uids = {})
          => results = <<>>

\* C9: enumerationMode, once on, stays on; a record lookup issued with fewer
\* than 20 candidates is scoped to them, and one issued with null or with 20
\* or more candidates is not.
C9_EnumerationMode ==
    /\ \A k \in DOMAIN lookups :
          lookups[k].stage = "record" =>
             (lookups[k].scoped <=>
                 (lookups[k].size # NULL /\ lookups[k].size < ENUMERATE_THRESHOLD))
    /\ (pc \in {"loop", "fetch", "done"} /\ ~candidateUids.isNull
            /\ Cardinality(candidateUids.uids) < ENUMERATE_THRESHOLD)
          => enumerationMode

\* C10: the materialization lookup is issued only for a non-empty final
\* candidate set, or for all rows when nothing was requested; an evaluation
\* ending with an empty candidate set returns no row and never issued it.
C10_NoFetchWhenEmpty ==
    /\ \A k \in DOMAIN lookups :
          /\ lookups[k].stage = "fetch" => lookups[k].size > 0
          /\ lookups[k].stage = "all" => ~HasBaseBound(config) /\ Len(Recs) = 0
    /\ (pc = "done" /\ ~candidateUids.isNull /\ candidateUids.uids = {})
          => /\ results = <<>>
             /\ \A k \in DOMAIN lookups : lookups[k].stage \notin {"fetch", "all"}

\* two record constraints, each matched by somebody, matched together by nobody
C10_Witness ==
    /\ pc = "done" /\ results = <<>> /\ ~HasBaseBound(config)
    /\ Len(Recs) = 2 /\ Len(lookups) = 2
    /\ MatchedUnscoped(Recs[1]) # {} /\ MatchedUnscoped(Recs[2]) # {}
    /\ candidateUids.uids = {}
====
